---------------------------- MODULE Spec2Model ----------------------------
(***************************************************************************)
(* smcroute: the .conf file parser (src/conf.c).                           *)
(*                                                                         *)
(* conf_read(file, do_vifs) checks that the file is readable, conf_parse   *)
(* reads it with fgets into a 512 byte buffer, splits every buffer into    *)
(* tokens with pop_token, recognises the directive and calls the backend   *)
(* (mroute_add_vif, mroute_del_vif, mcgroup4_join, mcgroup6_join,          *)
(* mroute4_add, mroute6_add); conf_read then runs script_exec(NULL).       *)
(*                                                                         *)
(* A C string is a sequence of one-character strings.  NULL and the empty  *)
(* string are both <<>>: every consumer of a char* here (pop_token,        *)
(* match, the NULL tests of join_mgroup and add_mroute) treats a pointer   *)
(* to "" that pop_token left behind exactly as it treats NULL, and         *)
(* pop_token never returns an empty token.                                 *)
(***************************************************************************)
EXTENDS Integers, Sequences, FiniteSets, TLC

VARIABLES
    file,       \* the bytes of the configuration file
    readable,   \* what access(file, R_OK) finds: "ok", "enoent", "eacces"
    do_vifs,    \* conf_read's argument
    have_ipv6,  \* HAVE_IPV6_MULTICAST_HOST && HAVE_IPV6_MULTICAST_ROUTING
    ifaces,     \* the backend's interface table: name -> [vif, mif, threshold]
    pc,         \* position in conf_read / conf_parse
    fpos,       \* read offset of fp (number of bytes consumed)
    linepos,    \* offset in the file of the buffer being parsed
    lineno,     \* conf_parse: int lineno
    linebuf,    \* the buffer as fgets filled it
    line,       \* conf_parse: char *line, the unparsed rest of the buffer
    op,         \* conf_parse: int op
    num,        \* conf_parse: int num
    enable,     \* conf_parse: int enable
    threshold,  \* conf_parse: int threshold
    ifname,     \* conf_parse: char *ifname
    source,     \* conf_parse: char *source
    group,      \* conf_parse: char *group
    dest,       \* conf_parse: char *dest[32], the slots written so far
    top,        \* the highest index of dest written for this buffer, -1: none
    ub,         \* what this build does with a write behind dest[31]
    pass,       \* which call of conf_read this is: 1, 2, ...
    ifaces0,    \* the interface table when this call of conf_read began
    prev,       \* the call of conf_read before this one: its table at the
                \* start, its backend calls and whether it completed
    calls,      \* the backend calls made so far, in order
    warns,      \* the WARN() messages logged so far, in order
    hooks,      \* number of script_exec(NULL) calls
    ioerr,      \* ferror(fp): a read error ended the fgets loop
    ret         \* conf_parse's return value (-1 while it has not returned)

vars == <<file, readable, do_vifs, have_ipv6, ifaces, pc, fpos, linepos,
          lineno, linebuf, line, op, num, enable, threshold, ifname, source,
          group, dest, top, ub, pass, ifaces0, prev, calls, warns, hooks,
          ioerr, ret>>

NULL == <<>>

-----------------------------------------------------------------------------
(* Keywords and verbs of the recogniser, conf.c:290-324.                   *)

k_hash     == <<"#">>
k_mgroup   == <<"m","g","r","o","u","p">>
k_mroute   == <<"m","r","o","u","t","e">>
k_phyint   == <<"p","h","y","i","n","t">>
k_ssmgroup == <<"s","s","m","g","r","o","u","p">>
k_from     == <<"f","r","o","m">>
k_source   == <<"s","o","u","r","c","e">>
k_group    == <<"g","r","o","u","p">>
k_to       == <<"t","o">>
k_enable   == <<"e","n","a","b","l","e">>
k_disable  == <<"d","i","s","a","b","l","e">>
k_ttl      == <<"t","t","l","-","t","h","r","e","s","h","o","l","d">>

MAX_LINE_LEN == 512
DEFAULT_THRESHOLD == 1
DEST_SLOTS == 32

-----------------------------------------------------------------------------
(* libc: isspace, atoi, strchr.                                            *)

isspace(c) == c \in {" ", "\t", "\n", "\r", "\f"}

Digits == <<"0","1","2","3","4","5","6","7","8","9">>
isdigit(c) == \E i \in 1..10 : Digits[i] = c
DigitVal(c) == (CHOOSE i \in 1..10 : Digits[i] = c) - 1

RECURSIVE AtoiDigits(_, _, _)
AtoiDigits(s, i, acc) ==
    IF i <= Len(s) /\ isdigit(s[i])
    THEN AtoiDigits(s, i + 1, acc * 10 + DigitVal(s[i]))
    ELSE acc

\* atoi: optional sign, then the longest run of digits; 0 when there is none.
\* (Tokens hold no whitespace, and the inputs stay far below INT_MAX.)
atoi(s) ==
    IF s = <<>> THEN 0
    ELSE IF s[1] = "-" THEN 0 - AtoiDigits(s, 2, 0)
    ELSE IF s[1] = "+" THEN AtoiDigits(s, 2, 0)
    ELSE AtoiDigits(s, 1, 0)

\* strchr(s, c): index of the first c in s, 0 when there is none.
strchr(s, c) ==
    IF \E i \in 1..Len(s) : s[i] = c
    THEN CHOOSE i \in 1..Len(s) : s[i] = c /\ \A j \in 1..(i - 1) : s[j] # c
    ELSE 0

-----------------------------------------------------------------------------
(* pop_token and match, conf.c:37-76.                                      *)

\* while (*token && isspace(*token)) token++;  conf.c:49-50: the first index
\* from i on that holds no whitespace, Len(s) + 1 when there is none.
SkipSpace(s, i) ==
    CHOOSE j \in i..(Len(s) + 1) :
        /\ j = Len(s) + 1 \/ ~isspace(s[j])
        /\ \A k \in i..(j - 1) : isspace(s[k])

\* while (*end && !isspace(*end)) end++;  conf.c:54-55.
SkipToken(s, i) ==
    CHOOSE j \in i..(Len(s) + 1) :
        /\ j = Len(s) + 1 \/ isspace(s[j])
        /\ \A k \in i..(j - 1) : ~isspace(s[k])

\* Returns the token and the new value of *line.  Index Len(s)+1 is the
\* terminating 0 of the C string.
pop_token(l) ==
    IF l = NULL THEN [token |-> NULL, line |-> NULL]
    ELSE LET token == SkipSpace(l, 1)
             end   == SkipToken(l, token)
         IN  IF end > Len(l) \/ end = token
             THEN [token |-> NULL, line |-> NULL]
             ELSE [token |-> SubSeq(l, token, end - 1),
                   line  |-> SubSeq(l, end + 1, Len(l))]

match(keyword, token) ==
    /\ keyword # NULL
    /\ token # NULL
    /\ Len(token) >= Len(keyword)
    /\ SubSeq(token, 1, Len(keyword)) = keyword

-----------------------------------------------------------------------------
(* inet_pton and the multicast class tests used by join_mgroup and         *)
(* add_mroute.  An IPv4 address is its four bytes in network order; an     *)
(* IPv6 address is its eight 16-bit groups.                                *)

RECURSIVE Split(_, _)
\* The pieces of s between the occurrences of c.
Split(s, c) ==
    LET i == strchr(s, c)
    IN  IF i = 0 THEN <<s>>
        ELSE <<SubSeq(s, 1, i - 1)>> \o Split(SubSeq(s, i + 1, Len(s)), c)

\* One decimal octet as inet_pton(AF_INET) reads it: digits only, no
\* leading zero before another digit, at most 255.
IsOctet(p) ==
    /\ Len(p) \in 1..3
    /\ \A i \in 1..Len(p) : isdigit(p[i])
    /\ (Len(p) > 1 => p[1] # "0")
    /\ AtoiDigits(p, 1, 0) <= 255

\* inet_pton(AF_INET, s, &a): ok is "returned 1", addr the four bytes of a.
inet_pton4(s) ==
    LET p == Split(s, ".")
    IN  IF Len(p) = 4 /\ \A i \in 1..4 : IsOctet(p[i])
        THEN [ok |-> TRUE, addr |-> [i \in 1..4 |-> AtoiDigits(p[i], 1, 0)]]
        ELSE [ok |-> FALSE, addr |-> <<0, 0, 0, 0>>]

INADDR_ANY == <<0, 0, 0, 0>>

\* IN_MULTICAST(a): (a & 0xf0000000) == 0xe0000000, the first byte is
\* 224..239.
IN_MULTICAST(a) == a[1] \div 16 = 14

HexDigits == <<"0","1","2","3","4","5","6","7","8","9",
               "a","b","c","d","e","f">>
HexUpper  == <<"A","B","C","D","E","F">>
isxdigit(c) == (\E i \in 1..16 : HexDigits[i] = c) \/ (\E i \in 1..6 : HexUpper[i] = c)
HexVal(c) ==
    IF \E i \in 1..16 : HexDigits[i] = c
    THEN (CHOOSE i \in 1..16 : HexDigits[i] = c) - 1
    ELSE (CHOOSE i \in 1..6 : HexUpper[i] = c) + 9

RECURSIVE HexNum(_, _, _)
HexNum(p, i, acc) ==
    IF i > Len(p) THEN acc ELSE HexNum(p, i + 1, acc * 16 + HexVal(p[i]))

IsHexGroup(p) == Len(p) \in 1..4 /\ \A i \in 1..Len(p) : isxdigit(p[i])

\* Index of the first "::" in s, 0 when there is none.
DoubleColon(s) ==
    IF \E i \in 1..(Len(s) - 1) : s[i] = ":" /\ s[i + 1] = ":"
    THEN CHOOSE i \in 1..(Len(s) - 1) :
            /\ s[i] = ":" /\ s[i + 1] = ":"
            /\ \A j \in 1..(i - 1) : ~(s[j] = ":" /\ s[j + 1] = ":")
    ELSE 0

Groups(s) == IF s = <<>> THEN <<>> ELSE Split(s, ":")

\* inet_pton(AF_INET6, s, &a) for the colon-hex forms: groups of one to four
\* hex digits, at most one "::" standing for one or more zero groups.  (The
\* form with a trailing dotted quad is not among the inputs and reads as
\* invalid here.)
inet_pton6(s) ==
    LET dc    == DoubleColon(s)
        left  == IF dc = 0 THEN Groups(s) ELSE Groups(SubSeq(s, 1, dc - 1))
        right == IF dc = 0 THEN <<>> ELSE Groups(SubSeq(s, dc + 2, Len(s)))
        n     == Len(left) + Len(right)
        good  == /\ \A i \in 1..Len(left) : IsHexGroup(left[i])
                 /\ \A i \in 1..Len(right) : IsHexGroup(right[i])
                 /\ IF dc = 0 THEN n = 8 ELSE n <= 7
    IN  IF good
        THEN [ok |-> TRUE,
              addr |-> [i \in 1..8 |->
                          IF i <= Len(left) THEN HexNum(left[i], 1, 0)
                          ELSE IF i > 8 - Len(right)
                               THEN HexNum(right[i - (8 - Len(right))], 1, 0)
                               ELSE 0]]
        ELSE [ok |-> FALSE, addr |-> [i \in 1..8 |-> 0]]

\* IN6_IS_ADDR_MULTICAST(a): the first byte is 0xff.
IN6_IS_ADDR_MULTICAST(a) == a[1] \div 256 = 255

-----------------------------------------------------------------------------
(* The backend's interface table (ifvc.h, declarations only): the lookups  *)
(* add_mroute makes, and what a phyint call leaves behind for the lines    *)
(* after it.                                                               *)

MaxVifs == 3
VifIdx == 0..(MaxVifs - 1)

\* iface_find_by_name: <<the interface>>, or NULL (<<>>) when there is none.
iface_find_by_name(name) ==
    IF name \in DOMAIN ifaces THEN <<ifaces[name]>> ELSE NULL

\* iface_get_vif_by_name / iface_get_mif_by_name: the index, or -1.
iface_get_vif_by_name(name) ==
    IF name \in DOMAIN ifaces THEN ifaces[name].vif ELSE -1
iface_get_mif_by_name(name) ==
    IF name \in DOMAIN ifaces THEN ifaces[name].mif ELSE -1

FreeIdx(used) ==
    IF VifIdx \ used = {} THEN -1
    ELSE CHOOSE i \in VifIdx \ used : \A j \in VifIdx \ used : i <= j

\* The table after mroute_add_vif(name, thr): a known interface without a
\* virtual index gets the lowest free one in either index space, and the
\* interface keeps the threshold (a u8) it was added with.
vif_added(tbl, name, thr) ==
    IF name \notin DOMAIN tbl THEN tbl
    ELSE LET usedv == {tbl[n].vif : n \in DOMAIN tbl} \ {-1}
             usedm == {tbl[n].mif : n \in DOMAIN tbl} \ {-1}
             e     == tbl[name]
         IN  [tbl EXCEPT ![name] =
                [vif |-> IF e.vif = -1 THEN FreeIdx(usedv) ELSE e.vif,
                 mif |-> IF e.mif = -1 THEN FreeIdx(usedm) ELSE e.mif,
                 threshold |-> thr % 256]]

\* The table after mroute_del_vif(name).
vif_deleted(tbl, name) ==
    IF name \notin DOMAIN tbl THEN tbl
    ELSE [tbl EXCEPT ![name].vif = -1, ![name].mif = -1]

-----------------------------------------------------------------------------
(* join_mgroup, conf.c:78-124.  The result is what the call did: the       *)
(* warnings it logged, the backend calls it made (none or one), and the    *)
(* values it can return.                                                   *)

\* WARN with the line number counted from zero.
Warning_from_zero(ln, msg, arg) == [lineno |-> ln - 1, msg |-> msg, arg |-> arg]

\* WARN(fmt, args...): smclog(LOG_WARNING, 0, "%02d: " fmt, lineno, ##args),
\* conf.c:32-33.
Warning(ln, msg, arg) == [lineno |-> ln, msg |-> msg, arg |-> arg]
Call(fn, args) == [fn |-> fn, args |-> args]
Done(w, c, r) == [warns |-> w, calls |-> c, result |-> r]

\* result is the set of values the function can return: what a backend call
\* returns is the backend's, and conf_parse drops it.
BACKEND == {-1, 0, 1}

\* bad_group4 without its IN_MULTICAST test.
bad_group4_parse_only(g) == ~g.ok

\* The group tests of conf.c:97, 115, 155 and 217: the literal parses and is
\* a multicast address of its family.
bad_group4(g) == ~g.ok \/ ~IN_MULTICAST(g.addr)
bad_group6(g) == ~g.ok \/ ~IN6_IS_ADDR_MULTICAST(g.addr)

\* ipv6_disabled with the conditional compilation left out.
ipv6_disabled_never == FALSE

\* #if !defined(HAVE_IPV6_MULTICAST_HOST) || !defined(HAVE_IPV6_MULTICAST_ROUTING),
\* conf.c:88 and conf.c:138.
ipv6_disabled == ~have_ipv6

join_mgroup6(ln, name, src, grp) ==
    IF ipv6_disabled
    THEN Done(<<Warning(ln, "Ignored, IPv6 disabled.", NULL)>>, <<>>, {0})
    ELSE LET w1 == IF src # NULL
                   THEN <<Warning(ln, "IPv6 is not (yet) supported for Source Specific Multicast.", NULL)>>
                   ELSE <<>>
             g  == inet_pton6(grp)
         IN  IF bad_group6(g)
             THEN Done(w1 \o <<Warning(ln, "Invalid IPv6 multicast group", grp)>>, <<>>, {1})
             ELSE Done(w1, <<Call("mcgroup6_join", [ifname |-> name, group |-> g.addr])>>,
                       BACKEND)

join_mgroup4(ln, name, src, grp) ==
    LET s == IF src # NULL THEN inet_pton4(src) ELSE [ok |-> TRUE, addr |-> INADDR_ANY]
        g == inet_pton4(grp)
    IN  IF src # NULL /\ ~s.ok
        THEN Done(<<Warning(ln, "Invalid IPv4 multicast source", src)>>, <<>>, {1})
        ELSE IF bad_group4(g)
        THEN Done(<<Warning(ln, "Invalid IPv4 multicast group", grp)>>, <<>>, {1})
        ELSE Done(<<>>, <<Call("mcgroup4_join",
                               [ifname |-> name, source |-> s.addr, group |-> g.addr])>>,
                  BACKEND)

join_mgroup(ln, name, src, grp) ==
    IF name = NULL \/ grp = NULL THEN Done(<<>>, <<>>, {1})
    ELSE IF strchr(grp, ":") # 0 THEN join_mgroup6(ln, name, src, grp)
    ELSE join_mgroup4(ln, name, src, grp)

-----------------------------------------------------------------------------
(* add_mroute, conf.c:126-246.                                             *)

ZeroTtl == [i \in VifIdx |-> 0]

\* ttl_set storing the default threshold instead of the interface's.
ttl_set_default(ttl, idx, thr) == [ttl EXCEPT ![idx] = DEFAULT_THRESHOLD]

\* mroute.ttl[iface->vif] = iface->threshold, conf.c:175 and conf.c:237.
ttl_set(ttl, idx, thr) == [ttl EXCEPT ![idx] = thr]

RECURSIVE Outbound(_, _, _, _, _, _)
\* The loop over outbound[i], conf.c:160-176 (six = TRUE, indices are mifs)
\* and conf.c:222-238 (six = FALSE, indices are vifs).  acc holds the ttl
\* vector, total and the warnings so far.
Outbound(ln, six, name, inbound, outbound, acc) ==
    IF outbound = <<>> THEN acc
    ELSE LET o     == Head(outbound)
             iface == iface_find_by_name(o)
             idx   == IF iface = NULL THEN -1
                      ELSE IF six THEN iface[1].mif ELSE iface[1].vif
             bad   == IF six THEN "Invalid outbound IPv6 interface"
                      ELSE "Invalid outbound IPv4 interface"
             same  == IF six THEN "Same outbound IPv6 interface as inbound"
                      ELSE "Same outbound IPv4 interface as inbound"
         IN  IF iface = NULL \/ idx = -1
             THEN Outbound(ln, six, name, inbound, Tail(outbound),
                    [acc EXCEPT !.total = @ - 1,
                                !.warns = Append(@, Warning(ln, bad, o))])
             ELSE Outbound(ln, six, name, inbound, Tail(outbound),
                    [acc EXCEPT !.ttl = ttl_set(@, idx, iface[1].threshold),
                                !.warns = IF idx = inbound
                                          THEN Append(@, Warning(ln, same, o))
                                          ELSE @])

add_mroute6(ln, name, grp, src, outbound, n) ==
    IF ipv6_disabled
    THEN Done(<<Warning(ln, "Ignored, IPv6 disabled.", NULL)>>, <<>>, {0})
    ELSE LET inbound == iface_get_mif_by_name(name)
             s == IF src # NULL THEN inet_pton6(src) ELSE [ok |-> FALSE]
             g == inet_pton6(grp)
             o == Outbound(ln, TRUE, name, inbound, outbound,
                           [ttl |-> ZeroTtl, total |-> n, warns |-> <<>>])
         IN  IF inbound < 0
             THEN Done(<<Warning(ln, "Invalid inbound IPv6 interface", name)>>, <<>>, {1})
             ELSE IF src = NULL \/ ~s.ok
             THEN Done(<<Warning(ln, "Invalid source IPv6 address", src)>>, <<>>, {1})
             ELSE IF bad_group6(g)
             THEN Done(<<Warning(ln, "Invalid IPv6 multicast group", grp)>>, <<>>, {1})
             ELSE IF o.total = 0
             THEN Done(o.warns \o <<Warning(ln, "No valid outbound interfaces, skipping multicast route.", NULL)>>,
                       <<>>, {1})
             ELSE Done(o.warns,
                       <<Call("mroute6_add", [inbound |-> inbound, source |-> s.addr,
                                              group |-> g.addr, ttl |-> o.ttl])>>,
                       BACKEND)

\* mroute_source4 without the wildcard default: a line without source fails.
mroute_source4_required(src) ==
    IF src = NULL THEN [ok |-> FALSE, addr |-> INADDR_ANY] ELSE inet_pton4(src)

\* if (!source) INADDR_ANY else inet_pton(AF_INET, source, ...), conf.c:194-199.
mroute_source4(src) ==
    IF src = NULL THEN [ok |-> TRUE, addr |-> INADDR_ANY] ELSE inet_pton4(src)

\* ssm_with_prefix with the test left out.
ssm_with_prefix_allowed(ptr, s) == FALSE

\* if (ptr) { if (mroute.source.s_addr != htonl(INADDR_ANY)) ..., conf.c:202-206.
ssm_with_prefix(ptr, s) == ptr # 0 /\ s.addr # INADDR_ANY

\* mroute_len defaulting to the full width of an IPv4 address.
mroute_len_full(grp, ptr) ==
    IF ptr # 0 THEN atoi(SubSeq(grp, ptr + 1, Len(grp))) ELSE 32

\* mroute.len: memset leaves 0, conf.c:187, and only a /LEN suffix assigns
\* it, conf.c:208-209.
mroute_len(grp, ptr) ==
    IF ptr # 0 THEN atoi(SubSeq(grp, ptr + 1, Len(grp))) ELSE 0

add_mroute4(ln, name, grp, src, outbound, n) ==
    LET inbound == iface_get_vif_by_name(name)
        s    == mroute_source4(src)
        ptr  == strchr(grp, "/")
        \* *ptr++ = 0 cuts group at the slash
        grp1 == IF ptr # 0 THEN SubSeq(grp, 1, ptr - 1) ELSE grp
        len  == mroute_len(grp, ptr)
        g    == inet_pton4(grp1)
        o    == Outbound(ln, FALSE, name, inbound, outbound,
                         [ttl |-> ZeroTtl, total |-> n, warns |-> <<>>])
    IN  IF inbound < 0
        THEN Done(<<Warning(ln, "Invalid inbound IPv4 interface", name)>>, <<>>, {1})
        ELSE IF ~s.ok
        THEN Done(<<Warning(ln, "Invalid source IPv4 address", src)>>, <<>>, {1})
        ELSE IF ssm_with_prefix(ptr, s)
        THEN Done(<<Warning(ln, "GROUP/LEN not yet supported for source specific multicast.", NULL)>>,
                  <<>>, {1})
        ELSE IF ptr # 0 /\ (len < 0 \/ len > 32)
        THEN Done(<<Warning(ln, "Invalid prefix length", grp1)>>, <<>>, {1})
        ELSE IF bad_group4(g)
        THEN Done(<<Warning(ln, "Invalid IPv4 multicast group", grp1)>>, <<>>, {1})
        ELSE IF o.total = 0
        THEN Done(o.warns \o <<Warning(ln, "No valid outbound IPv4 interfaces, skipping multicast route.", NULL)>>,
                  <<>>, {1})
        ELSE Done(o.warns,
                  <<Call("mroute4_add", [inbound |-> inbound, source |-> s.addr,
                                         group |-> g.addr, len |-> len, ttl |-> o.ttl])>>,
                  BACKEND)

\* outbound is dest[0..num-1]; the array itself is never a NULL pointer.
add_mroute(ln, name, grp, src, outbound, n) ==
    IF name = NULL \/ grp = NULL \/ n = 0 THEN Done(<<>>, <<>>, {1})
    ELSE IF strchr(grp, ":") # 0 THEN add_mroute6(ln, name, grp, src, outbound, n)
    ELSE add_mroute4(ln, name, grp, src, outbound, n)

-----------------------------------------------------------------------------
(* conf_parse, conf.c:259-353: the recogniser of one token.                *)

\* The locals of one pass of the fgets loop, conf.c:280-286.
Locals == [op |-> op, num |-> num, enable |-> enable, threshold |-> threshold,
           ifname |-> ifname, source |-> source, group |-> group, dest |-> dest,
           top |-> top, line |-> line]

\* if (!op) { ... }, conf.c:293-309, for a token popped from a line whose
\* rest is st.line.  unknown is the branch that warns and continues.
verb(st, token) ==
    IF st.op # 0 THEN [st |-> st, unknown |-> FALSE]
    ELSE IF match(k_mgroup, token) THEN [st |-> [st EXCEPT !.op = 1], unknown |-> FALSE]
    ELSE IF match(k_mroute, token) THEN [st |-> [st EXCEPT !.op = 2], unknown |-> FALSE]
    ELSE IF match(k_phyint, token)
    THEN LET t == pop_token(st.line)
         IN  [st |-> [st EXCEPT !.op = IF t.token = NULL THEN 0 ELSE 3,
                                !.ifname = t.token,
                                !.line = t.line],
              unknown |-> FALSE]
    ELSE IF match(k_ssmgroup, token) THEN [st |-> [st EXCEPT !.op = 1], unknown |-> FALSE]
    ELSE [st |-> st, unknown |-> TRUE]

RECURSIVE pop_all(_)
\* while ((dest[num] = pop_token(&line))) num++;  conf.c:318-319: the tokens
\* stored, in order.
pop_all(l) ==
    LET t == pop_token(l)
    IN  IF t.token = NULL THEN <<>> ELSE <<t.token>> \o pop_all(t.line)

\* if (num >= 1 || num <= 255) threshold = num;  conf.c:329-330.
ttl_threshold(thr, n) == IF n >= 1 \/ n <= 255 THEN n ELSE thr

\* The keyword chain, conf.c:311-332.
keyword(st, token) ==
    LET t == pop_token(st.line)
    IN  IF match(k_from, token)
        THEN [st EXCEPT !.ifname = t.token, !.line = t.line]
        ELSE IF match(k_source, token)
        THEN [st EXCEPT !.source = t.token, !.line = t.line]
        ELSE IF match(k_group, token)
        THEN [st EXCEPT !.group = t.token, !.line = t.line]
        ELSE IF match(k_to, token)
        THEN LET got == pop_all(st.line)
             \* the NULL that ends the loop is stored too, in dest[num]
             IN  [st EXCEPT !.dest = SubSeq(st.dest, 1, st.num) \o got,
                            !.num = st.num + Len(got),
                            !.top = st.num + Len(got),
                            !.line = NULL]
        ELSE IF match(k_enable, token) THEN [st EXCEPT !.enable = 1]
        ELSE IF match(k_disable, token) THEN [st EXCEPT !.enable = 0]
        ELSE IF match(k_ttl, token)
        THEN IF t.token # NULL
             THEN [st EXCEPT !.threshold = ttl_threshold(st.threshold, atoi(t.token)),
                             !.line = t.line]
             ELSE [st EXCEPT !.line = t.line]
        ELSE st

\* One pass of the token loop, conf.c:288-333, on the locals st: the locals
\* after it, done when the loop ends (no token left, or a comment), and the
\* token of an "Unknown command" warning, if it logged one.
parse_token(st) ==
    LET t     == pop_token(st.line)
        token == t.token
        v     == verb([st EXCEPT !.line = t.line], token)
    IN  IF token = NULL \/ match(k_hash, token)
        THEN [st |-> [st EXCEPT !.line = t.line], done |-> TRUE, unknown |-> NULL]
        ELSE IF v.unknown
        THEN [st |-> [st EXCEPT !.line = t.line], done |-> FALSE, unknown |-> token]
        ELSE [st |-> keyword(v.st, token), done |-> FALSE, unknown |-> NULL]

\* init_locals with enable seeded from do_vifs in the first call of
\* conf_read only, as a static seed would be.
init_locals_seed_once(buf, dv) ==
    [op |-> 0, num |-> 0, enable |-> IF pass = 1 THEN dv ELSE 1,
     threshold |-> DEFAULT_THRESHOLD,
     ifname |-> NULL, source |-> NULL, group |-> NULL, dest |-> <<>>,
     top |-> -1, line |-> buf]

\* The locals at the top of the fgets loop, conf.c:280-286, for a buffer buf.
init_locals(buf, dv) ==
    [op |-> 0, num |-> 0, enable |-> dv, threshold |-> DEFAULT_THRESHOLD,
     ifname |-> NULL, source |-> NULL, group |-> NULL, dest |-> <<>>,
     top |-> -1, line |-> buf]

\* phyint_apply without its else: an enabled interface is added and removed.
phyint_apply_both(en, name, thr) ==
    IF en # 0
    THEN Done(<<>>, <<Call("mroute_add_vif", [ifname |-> name, threshold |-> thr]),
                      Call("mroute_del_vif", [ifname |-> name])>>, BACKEND)
    ELSE Done(<<>>, <<Call("mroute_del_vif", [ifname |-> name])>>, BACKEND)

\* if (enable) mroute_add_vif(ifname, threshold); else mroute_del_vif(ifname);
\* conf.c:340-343.
phyint_apply(en, name, thr) ==
    IF en # 0
    THEN Done(<<>>, <<Call("mroute_add_vif", [ifname |-> name, threshold |-> thr])>>, BACKEND)
    ELSE Done(<<>>, <<Call("mroute_del_vif", [ifname |-> name])>>, BACKEND)

\* The dispatch on op, conf.c:335-344.
apply(ln, st) ==
    IF st.op = 1 THEN join_mgroup(ln, st.ifname, st.source, st.group)
    ELSE IF st.op = 2
    THEN add_mroute(ln, st.ifname, st.group, st.source, SubSeq(st.dest, 1, st.num), st.num)
    ELSE IF st.op = 3 THEN phyint_apply(st.enable, st.ifname, st.threshold)
    ELSE Done(<<>>, <<>>, {0})

\* What the backend call of a line leaves in the interface table.
backend(tbl, cs) ==
    IF cs = <<>> THEN tbl
    ELSE IF cs[1].fn = "mroute_add_vif"
    THEN vif_added(tbl, cs[1].args.ifname, cs[1].args.threshold)
    ELSE IF cs[1].fn = "mroute_del_vif" THEN vif_deleted(tbl, cs[1].args.ifname)
    ELSE tbl

\* What a build can do with a store behind the last slot of dest: the slot
\* is spare stack and nothing shows, the process is killed (stack protector,
\* unmapped page), or the slot is the storage of a neighbouring pointer.
UbOutcomes == { "spare", "crash", "ifname", "source", "group" }

\* The locals after conf.c:318 stored behind dest[DEST_SLOTS - 1], in a
\* build whose outcome is u: dest[DEST_SLOTS] received the token after the
\* last one that fits, or the NULL that ends the loop.
overrun(st, u) ==
    LET v == IF Len(st.dest) > DEST_SLOTS THEN st.dest[DEST_SLOTS + 1] ELSE NULL
    IN  IF st.top < DEST_SLOTS THEN st
        ELSE IF u = "ifname" THEN [st EXCEPT !.ifname = v]
        ELSE IF u = "source" THEN [st EXCEPT !.source = v]
        ELSE IF u = "group" THEN [st EXCEPT !.group = v]
        ELSE st

\* A warning or a call, with the file offset of the buffer that caused it.
At(pos, w) == [pos |-> pos, lineno |-> w.lineno, msg |-> w.msg, arg |-> w.arg]

\* fgets(linebuf, MAX_LINE_LEN, fp) at offset pos of text f: the bytes up to
\* and including the first newline, at most MAX_LINE_LEN - 1 of them.
fgets(f, pos) ==
    LET rest  == SubSeq(f, pos + 1, Len(f))
        nl    == strchr(rest, "\n")
        upto  == IF nl = 0 THEN Len(rest) ELSE nl
        count == IF upto > MAX_LINE_LEN - 1 THEN MAX_LINE_LEN - 1 ELSE upto
    IN  SubSeq(rest, 1, count)

-----------------------------------------------------------------------------
(* The inputs: configuration files, built from lines of tokens.            *)

eth0      == <<"e","t","h","0">>
eth1      == <<"e","t","h","1">>
eth2      == <<"e","t","h","2">>
eth9      == <<"e","t","h","9">>
g_225     == <<"2","2","5",".","1",".","2",".","3">>
g_pfx16   == <<"2","3","9",".","1",".","0",".","0","/","1","6">>
g_pfx33   == <<"2","3","9",".","1",".","0",".","0","/","3","3">>
a_10      == <<"1","0",".","0",".","0",".","1">>
a_any     == <<"0",".","0",".","0",".","0">>
a_bad     == <<"1",".","2",".","3">>
g_ff02    == <<"f","f","0","2",":",":","1">>
a_fe80    == <<"f","e","8","0",":",":","1">>
a_2001    == <<"2","0","0","1",":","d","b","8",":",":","1">>
n_0       == <<"0">>
n_10      == <<"1","0">>
n_255     == <<"2","5","5">>
n_300     == <<"3","0","0">>
n_neg     == <<"-","5">>
w_bogus   == <<"b","o","g","u","s">>
w_enabled == <<"e","n","a","b","l","e","d">>

RECURSIVE Join(_)
\* The tokens separated by single blanks.
Join(toks) ==
    IF toks = <<>> THEN <<>>
    ELSE IF Len(toks) = 1 THEN toks[1]
    ELSE toks[1] \o <<" ">> \o Join(Tail(toks))

Line(toks) == Join(toks) \o <<"\n">>

\* The lines the files of several lines are made of.
CoreLines ==
    { Line(<<k_phyint, eth2, k_enable, k_ttl, n_10>>),
      Line(<<k_phyint, eth1, k_disable>>),
      Line(<<k_mgroup, k_from, eth0, k_group, g_225>>),
      Line(<<k_mroute, k_from, eth0, k_group, g_225, k_to, eth1, eth2>>),
      Line(<<k_hash, w_bogus>>),
      Line(<<>>),
      Line(<<w_bogus, eth0>>) }

PhyintLines ==
    { Line(<<k_phyint>> \o a \o b \o c) :
        a \in { <<>>, <<eth0>>, <<eth2>> },
        b \in { <<>>, <<k_enable>>, <<k_disable>>, <<k_enable, k_disable>>,
                <<k_disable, w_enabled>>, <<k_from, eth1>>, <<k_from>>,
                <<k_to, k_disable>>, <<k_hash, k_disable>>,
                <<k_source, k_disable>>, <<k_group, eth1>> },
        c \in { <<>>, <<k_ttl, n_10>>, <<k_ttl, n_0>>, <<k_ttl, n_300>>,
                <<k_ttl, n_neg>>, <<k_ttl, n_255>>, <<k_ttl>> } }

UnknownLines ==
    { Line(<<w_bogus>> \o a) :
        a \in { <<>>, <<eth0>>, <<k_phyint, eth0, k_enable>>,
                <<k_mgroup, k_from, eth0, k_group, g_225>>,
                <<k_mroute, k_from, eth0, k_group, g_225, k_to, eth1>>,
                <<k_hash, k_phyint, eth0>> } }

MgroupLines ==
    { Line(v \o a \o b \o c \o d) :
        v \in { <<k_mgroup>>, <<k_ssmgroup>> },
        a \in { <<>>, <<k_from, eth0>>, <<k_from, eth9>> },
        b \in { <<>>, <<k_source, a_10>>, <<k_source, a_bad>> },
        c \in { <<>>, <<k_group, g_225>>, <<k_group, a_10>>, <<k_group, a_bad>>,
                <<k_group, g_ff02>>, <<k_group, a_fe80>> },
        d \in { <<>>, <<k_hash, w_bogus>> } }

MrouteLines ==
    { Line(<<k_mroute>> \o a \o b \o c \o d) :
        a \in { <<>>, <<k_from, eth0>>, <<k_from, eth9>> },
        b \in { <<>>, <<k_source, a_10>>, <<k_source, a_any>>,
                <<k_source, a_bad>>, <<k_source, a_2001>> },
        c \in { <<>>, <<k_group, g_225>>, <<k_group, a_10>>, <<k_group, g_pfx16>>,
                <<k_group, g_pfx33>>, <<k_group, g_ff02>>, <<k_group, a_fe80>> },
        d \in { <<>>, <<k_to>>, <<k_to, eth1>>, <<k_to, eth0>>, <<k_to, eth1, eth1>>,
                <<k_to, eth1, eth9>>, <<k_to, eth9, eth2>>,
                <<k_to, eth0, eth1, eth9, eth9>>, <<k_to, eth1, k_hash, eth0>> } }

\* Files in which a phyint line changes what a later mroute line finds.
ScenarioFiles ==
    { Line(<<k_phyint, eth2, k_enable, k_ttl, n_0>>)
          \o Line(<<k_mroute, k_from, eth0, k_group, g_225, k_to, eth2>>),
      Line(<<k_mroute, k_from, eth2, k_group, g_225, k_to, eth1>>)
          \o Line(<<k_phyint, eth2, k_enable>>) }

MaxLines == 2

\* How many times conf_read is called on the file.
MaxPasses == 2

RECURSIVE Texts(_)
\* The files of at most n core lines.
Texts(n) ==
    IF n = 0 THEN { <<>> }
    ELSE LET T == Texts(n - 1) IN T \cup { t \o l : t \in T, l \in CoreLines }

Pad(n, c) == [i \in 1..n |-> c]

\* Files with a line longer than the line buffer.
LongFiles ==
    { Join(<<k_hash, Pad(MAX_LINE_LEN + 8, "x")>>) \o <<"\n">> \o Line(<<w_bogus>>),
      Join(<<k_phyint, eth2, k_enable>>) \o Pad(MAX_LINE_LEN, " ")
          \o Line(<<k_phyint, eth1, k_disable>>) }

\* An mroute line with as many outbound names as dest has slots, and one
\* with one more.
OverflowFiles ==
    { Line(<<k_mroute, k_from, eth0, k_group, g_225, k_to>> \o Pad(DEST_SLOTS, eth1)),
      Line(<<k_mroute, k_from, eth0, k_group, g_225, k_to>> \o Pad(DEST_SLOTS, eth1)
               \o <<eth9>>) }

\* A file whose last line has no newline.
Chop(f) == SubSeq(f, 1, Len(f) - 1)

Files ==
    Texts(MaxLines) \cup PhyintLines \cup UnknownLines \cup MgroupLines
        \cup MrouteLines \cup ScenarioFiles \cup LongFiles \cup OverflowFiles
        \cup { Chop(f) : f \in (Texts(MaxLines) \ { <<>> }) \cup PhyintLines }

\* The interfaces of the host: eth0 and eth1 have a virtual index, eth2 has
\* none yet; no other name is known.
Interfaces ==
    (eth0 :> [vif |-> 0, mif |-> 0, threshold |-> 1])
    @@ (eth1 :> [vif |-> 1, mif |-> 1, threshold |-> 5])
    @@ (eth2 :> [vif |-> -1, mif |-> -1, threshold |-> 1])

-----------------------------------------------------------------------------
(* conf_read and conf_parse as a state machine.                            *)

Init ==
    /\ readable \in {"ok", "enoent", "eacces"}
    \* what an unreadable file holds is never looked at
    /\ file \in IF readable = "ok" THEN Files ELSE { <<>> }
    /\ do_vifs \in {0, 1}
    /\ have_ipv6 \in BOOLEAN
    \* only a file that overruns dest shows what the build does then
    /\ ub \in IF file \in OverflowFiles THEN UbOutcomes ELSE { "spare" }
    /\ ifaces = Interfaces
    /\ pass = 1
    /\ ifaces0 = Interfaces
    /\ prev = [start |-> Interfaces, calls |-> <<>>, ok |-> FALSE]
    /\ pc = "conf_read"
    /\ fpos = 0
    /\ linepos = 0
    /\ lineno = 0
    /\ linebuf = NULL
    /\ line = NULL
    /\ op = 0
    /\ num = 0
    /\ enable = 0
    /\ threshold = 0
    /\ ifname = NULL
    /\ source = NULL
    /\ group = NULL
    /\ dest = <<>>
    /\ top = -1
    /\ calls = <<>>
    /\ warns = <<>>
    /\ hooks = 0
    /\ ioerr = FALSE
    /\ ret = -1

parse_locals == <<fpos, linepos, lineno, linebuf, line, op, num, enable,
                  threshold, ifname, source, group, dest, top>>
env == <<file, readable, do_vifs, have_ipv6, ub>>
passes == <<pass, ifaces0, prev>>

\* conf_read: access(file, R_OK) fails, conf.c:358-366.
AccessFails ==
    /\ pc = "conf_read"
    /\ readable # "ok"
    /\ pc' = "done"
    /\ UNCHANGED <<env, passes, ifaces, parse_locals, calls, warns, hooks, ioerr, ret>>

\* conf_read calls conf_parse, conf.c:368, which initialises lineno,
\* conf.c:261.
AccessOk ==
    /\ pc = "conf_read"
    /\ readable = "ok"
    /\ pc' = "fopen"
    /\ lineno' = 1
    /\ UNCHANGED <<env, passes, ifaces, fpos, linepos, linebuf, line, op, num,
                   enable, threshold, ifname, source, group, dest, top, calls,
                   warns, hooks, ioerr, ret>>

\* fopen fails although access succeeded (the file went away, no
\* descriptor left): return 1, conf.c:265-267, and conf_read logs the
\* failure, conf.c:369.
FopenFails ==
    /\ pc = "fopen"
    /\ pc' = "done"
    /\ ret' = 1
    /\ UNCHANGED <<env, passes, ifaces, parse_locals, calls, warns, hooks, ioerr>>

FopenOk ==
    /\ pc = "fopen"
    /\ pc' = "malloc"
    /\ UNCHANGED <<env, passes, ifaces, parse_locals, calls, warns, hooks, ioerr, ret>>

\* malloc fails: fclose, return 1, conf.c:269-277.
MallocFails ==
    /\ pc = "malloc"
    /\ pc' = "done"
    /\ ret' = 1
    /\ UNCHANGED <<env, passes, ifaces, parse_locals, calls, warns, hooks, ioerr>>

MallocOk ==
    /\ pc = "malloc"
    /\ pc' = "fgets"
    /\ UNCHANGED <<env, passes, ifaces, parse_locals, calls, warns, hooks, ioerr, ret>>

\* fgets returns a line, conf.c:279, and the locals are initialised,
\* conf.c:280-286.
FgetsLine ==
    /\ pc = "fgets"
    /\ fpos < Len(file)
    /\ LET buf == fgets(file, fpos)
       IN  /\ linebuf' = buf
           /\ line' = buf
           /\ linepos' = fpos
           /\ fpos' = fpos + Len(buf)
    /\ LET st == init_locals(NULL, do_vifs)
       IN  /\ op' = st.op
           /\ num' = st.num
           /\ enable' = st.enable
           /\ threshold' = st.threshold
           /\ ifname' = st.ifname
           /\ source' = st.source
           /\ group' = st.group
           /\ dest' = st.dest
           /\ top' = st.top
    /\ pc' = "token"
    /\ UNCHANGED <<env, passes, ifaces, lineno, calls, warns, hooks, ioerr, ret>>

\* fgets returns NULL at the end of the file: the loop ends, conf.c:279.
FgetsEof ==
    /\ pc = "fgets"
    /\ fpos = Len(file)
    /\ pc' = "close"
    /\ UNCHANGED <<env, passes, ifaces, parse_locals, calls, warns, hooks, ioerr, ret>>

\* fgets returns NULL because the read failed: the same loop exit,
\* conf.c:279; nothing looks at ferror(fp).
FgetsError ==
    /\ pc = "fgets"
    /\ ioerr' = TRUE
    /\ pc' = "close"
    /\ UNCHANGED <<env, passes, ifaces, parse_locals, calls, warns, hooks, ret>>

\* One pass of while ((token = pop_token(&line))), conf.c:288-333.
ParseToken ==
    /\ pc = "token"
    /\ LET r  == parse_token(Locals)
           st == overrun(r.st, ub)
       IN  /\ op' = st.op
           /\ num' = st.num
           /\ enable' = st.enable
           /\ threshold' = st.threshold
           /\ ifname' = st.ifname
           /\ source' = st.source
           /\ group' = st.group
           /\ dest' = st.dest
           /\ top' = st.top
           /\ line' = st.line
           /\ pc' = IF st.top >= DEST_SLOTS /\ ub = "crash" THEN "crashed"
                    ELSE IF r.done THEN "apply" ELSE "token"
           /\ warns' = IF r.unknown = NULL THEN warns
                       ELSE Append(warns, At(linepos,
                              Warning(lineno, "Unknown command, skipping.", r.unknown)))
    /\ UNCHANGED <<env, passes, ifaces, fpos, linepos, lineno, linebuf, calls, hooks,
                   ioerr, ret>>

\* The directive of the line is applied and lineno incremented,
\* conf.c:335-346.
Apply ==
    /\ pc = "apply"
    /\ LET d == apply(lineno, Locals)
       IN  /\ warns' = warns \o [i \in 1..Len(d.warns) |-> At(linepos, d.warns[i])]
           /\ calls' = calls \o [i \in 1..Len(d.calls) |->
                                   [pos |-> linepos, lineno |-> lineno,
                                    fn |-> d.calls[i].fn, args |-> d.calls[i].args]]
           /\ ifaces' = backend(ifaces, d.calls)
    /\ lineno' = lineno + 1
    /\ pc' = "fgets"
    /\ UNCHANGED <<env, passes, fpos, linepos, linebuf, line, op, num, enable,
                   threshold, ifname, source, group, dest, top, hooks, ioerr, ret>>

\* free, fclose, return 0, conf.c:349-352, and conf_read runs
\* script_exec(NULL), conf.c:371.
Finish ==
    /\ pc = "close"
    /\ ret' = 0
    /\ hooks' = hooks + 1
    /\ pc' = "done"
    /\ UNCHANGED <<env, passes, ifaces, parse_locals, calls, warns, ioerr>>

\* conf_read is called again on the same file (a reload after a pass that
\* read the whole file), against the backend as the call before left it.
Reread ==
    /\ pc = "done"
    /\ pass < MaxPasses
    /\ readable = "ok" /\ ret = 0 /\ ~ioerr
    /\ pass' = pass + 1
    /\ prev' = [start |-> ifaces0, calls |-> calls, ok |-> TRUE]
    /\ ifaces0' = ifaces
    /\ pc' = "conf_read"
    /\ fpos' = 0
    /\ linepos' = 0
    /\ lineno' = 0
    /\ linebuf' = NULL
    /\ line' = NULL
    /\ op' = 0
    /\ num' = 0
    /\ enable' = 0
    /\ threshold' = 0
    /\ ifname' = NULL
    /\ source' = NULL
    /\ group' = NULL
    /\ dest' = <<>>
    /\ top' = -1
    /\ calls' = <<>>
    /\ warns' = <<>>
    /\ hooks' = 0
    /\ ioerr' = FALSE
    /\ ret' = -1
    /\ UNCHANGED <<env, ifaces>>

Next ==
    \/ AccessFails
    \/ AccessOk
    \/ FopenFails
    \/ FopenOk
    \/ MallocFails
    \/ MallocOk
    \/ FgetsLine
    \/ FgetsEof
    \/ FgetsError
    \/ ParseToken
    \/ Apply
    \/ Finish
    \/ Reread

Spec == Init /\ [][Next]_vars

-----------------------------------------------------------------------------
(* What the properties below speak of.                                     *)

\* The line in linebuf has been applied: its backend call, if any, is made
\* and lineno counts it.
LineDone == pc \in {"fgets", "close", "done"} /\ linebuf # NULL

\* The backend calls and the warnings of the line in linebuf.
LineCalls == SelectSeq(calls, LAMBDA c : c.pos = linepos)
LineWarns == SelectSeq(warns, LAMBDA w : w.lineno = lineno - 1)

\* The tokens of the line in linebuf, as pop_token hands them out.
Tokens == pop_all(linebuf)

IsVerb(t) ==
    match(k_mgroup, t) \/ match(k_mroute, t) \/ match(k_phyint, t) \/ match(k_ssmgroup, t)

\* Address family, literal and prefix of a group operand.
Six(g) == strchr(g, ":") # 0
HasPrefix(g) == strchr(g, "/") # 0
GroupLiteral(g) == IF HasPrefix(g) THEN SubSeq(g, 1, strchr(g, "/") - 1) ELSE g
PrefixLen(g) == atoi(SubSeq(g, strchr(g, "/") + 1, Len(g)))

\* The virtual index of a name in the family's index space, -1 when the
\* name does not resolve.
Index(name, six) ==
    IF name \notin DOMAIN ifaces THEN -1
    ELSE IF six THEN ifaces[name].mif ELSE ifaces[name].vif
Resolves(name, six) == Index(name, six) # -1

ValidAddr(a, six) == IF six THEN inet_pton6(a).ok ELSE inet_pton4(a).ok
Multicast(a, six) ==
    IF six THEN IN6_IS_ADDR_MULTICAST(inet_pton6(a).addr)
    ELSE IN_MULTICAST(inet_pton4(a).addr)

-----------------------------------------------------------------------------
\* C1: every line conf_parse processes produces at most one backend call,
\* and the backend calls of a pass occur strictly in the order of the lines
\* that caused them: the file offsets of the lines of successive calls
\* strictly increase.
C1_CallsInLineOrder ==
    \A i, j \in 1..Len(calls) : i < j => calls[i].pos < calls[j].pos

\* A pass has ended with backend calls from two lines.
C1_Witness == pc = "done" /\ hooks = 1 /\ Len(calls) >= 2

\* C2: conf_read runs the post-apply hook at most once: exactly once, after
\* the last backend call, when the file is readable and the pass completes,
\* and never when the file is not readable or the pass fails fatally (fopen
\* fails, malloc fails, or a read fails).
C2_HookOnlyAfterSuccess ==
    /\ hooks <= 1
    /\ (hooks = 1 => pc = "done")
    /\ (pc = "done" /\ readable = "ok" /\ ret = 0 /\ ~ioerr => hooks = 1)
    /\ (readable # "ok" \/ ret = 1 \/ ioerr => hooks = 0)

-----------------------------------------------------------------------------
(* The rejected operands of an mgroup (op = 1) or mroute (op = 2) line, on *)
(* the operands the recogniser collected for it.                           *)

MissingOperand == ifname = NULL \/ group = NULL \/ (op = 2 /\ num = 0)

\* The literal that has to be the group address: an mroute line for IPv4
\* may carry /LEN behind it.
GroupAddr == IF op = 2 /\ ~Six(group) THEN GroupLiteral(group) ELSE group

InvalidSource == source # NULL /\ group # NULL /\ ~ValidAddr(source, Six(group))
InvalidGroup == group # NULL /\ ~ValidAddr(GroupAddr, Six(group))
NonMulticastGroup ==
    group # NULL /\ ValidAddr(GroupAddr, Six(group)) /\ ~Multicast(GroupAddr, Six(group))
InvalidPrefix ==
    op = 2 /\ group # NULL /\ ~Six(group) /\ HasPrefix(group) /\ PrefixLen(group) \notin 0..32
UnresolvedInbound == ifname # NULL /\ group # NULL /\ ~Resolves(ifname, Six(group))
NoValidOutbound ==
    op = 2 /\ group # NULL /\ \A i \in 1..num : ~Resolves(dest[i], Six(group))
SourceWithPrefix ==
    /\ op = 2 /\ group # NULL /\ ~Six(group) /\ HasPrefix(group)
    /\ source # NULL /\ inet_pton4(source).ok /\ inet_pton4(source).addr # INADDR_ANY

\* C3 as claimed: an mgroup or mroute line with a missing required operand,
\* an invalid source or group literal, a non-multicast group, an invalid
\* prefix length, an unresolved inbound interface, no valid outbound
\* interface, or a non-wildcard source with a prefix makes no backend call.
C3_RejectedMakesNoCall ==
    LineDone /\ op \in {1, 2}
      /\ ( MissingOperand \/ InvalidSource \/ InvalidGroup \/ NonMulticastGroup
           \/ InvalidPrefix \/ UnresolvedInbound \/ NoValidOutbound \/ SourceWithPrefix )
    => LineCalls = <<>>

\* C3 as amended: the same, where an unresolved inbound interface rejects
\* an mroute line only (join_mgroup hands the name to the join call
\* unresolved), and an invalid source literal rejects an mroute line or an
\* IPv4 mgroup line only (the source of an IPv6 mgroup line is dropped
\* unread).
C3_RejectedByParserMakesNoCall ==
    LineDone /\ op \in {1, 2}
      /\ ( MissingOperand
           \/ (InvalidSource /\ ~(op = 1 /\ Six(group)))
           \/ InvalidGroup \/ NonMulticastGroup \/ InvalidPrefix
           \/ (UnresolvedInbound /\ op = 2)
           \/ NoValidOutbound \/ SourceWithPrefix )
    => LineCalls = <<>>

\* An mroute line that is rejected only for its non-wildcard source with a
\* group prefix has been applied and warned about.
C3_Witness ==
    LineDone /\ op = 2 /\ ~MissingOperand /\ SourceWithPrefix
      /\ ~InvalidPrefix /\ ~NonMulticastGroup /\ ~UnresolvedInbound /\ ~NoValidOutbound
      /\ Len(LineWarns) = 1 /\ LineCalls = <<>>

\* C4: a line whose first token is neither a comment nor one of the verbs
\* phyint, mgroup, mroute, ssmgroup makes no backend call, whatever follows.
C4_UnknownMakesNoCall ==
    LineDone /\ Tokens # <<>> /\ ~match(k_hash, Tokens[1]) /\ ~IsVerb(Tokens[1])
    => LineCalls = <<>>

\* The line cut off just before its first token that starts with '#'.
CommentAt(s) ==
    IF \E i \in 1..Len(s) : s[i] = "#" /\ (i = 1 \/ isspace(s[i - 1]))
    THEN CHOOSE i \in 1..Len(s) :
            /\ s[i] = "#" /\ (i = 1 \/ isspace(s[i - 1]))
            /\ \A j \in 1..(i - 1) : ~(s[j] = "#" /\ (j = 1 \/ isspace(s[j - 1])))
    ELSE 0
CutComment(s) == IF CommentAt(s) = 0 THEN s ELSE SubSeq(s, 1, CommentAt(s) - 1)

RECURSIVE recognise(_)
\* The token loop run to its end on the locals st.
recognise(st) ==
    LET r == parse_token(st) IN IF r.done THEN r.st ELSE recognise(r.st)

\* The backend calls conf_parse makes for the buffer buf.
calls_of(buf) == apply(lineno - 1, recognise(init_locals(buf, do_vifs))).calls

\* C5: the backend call of a line and its arguments are those of the line
\* cut off just before its first token that starts with '#'.
C5_CommentInvisible ==
    LineDone =>
      LET cut == calls_of(CutComment(linebuf))
      IN  /\ Len(LineCalls) = Len(cut)
          /\ \A i \in 1..Len(cut) :
                /\ LineCalls[i].fn = cut[i].fn
                /\ LineCalls[i].args = cut[i].args

\* C6: the threshold passed to mroute_add_vif lies in 1..255.
C6_ThresholdInRange ==
    \A i \in 1..Len(calls) :
        calls[i].fn = "mroute_add_vif" => calls[i].args.threshold \in 1..255

-----------------------------------------------------------------------------
RECURSIVE Runs(_)
\* The maximal runs of non-whitespace characters of l, in order.
Runs(l) ==
    LET start == SkipSpace(l, 1)
        end == SkipToken(l, start)
    IN  IF start > Len(l) THEN <<>>
        ELSE <<SubSeq(l, start, end - 1)>> \o Runs(SubSeq(l, end, Len(l)))

\* The words written on the line in linebuf.
Words == Runs(linebuf)

\* A phyint line with an interface name: the verb and a word after it that
\* does not open a comment.
PhyintLine ==
    Len(Words) >= 2 /\ match(k_phyint, Words[1]) /\ ~match(k_hash, Words[2])

RECURSIVE LastSwitch(_, _)
\* The value of the last enable (1) or disable (0) keyword among the words
\* ws, cur when there is none.  The word after ttl-threshold is its number,
\* and a comment ends the line.
LastSwitch(ws, cur) ==
    IF ws = <<>> THEN cur
    ELSE LET w == Head(ws)
         IN  IF match(k_hash, w) THEN cur
             ELSE IF match(k_ttl, w) THEN LastSwitch(SubSeq(ws, 3, Len(ws)), cur)
             ELSE IF match(k_enable, w) THEN LastSwitch(Tail(ws), 1)
             ELSE IF match(k_disable, w) THEN LastSwitch(Tail(ws), 0)
             ELSE LastSwitch(Tail(ws), cur)

Enabled == LastSwitch(SubSeq(Words, 3, Len(Words)), do_vifs) # 0

\* C7: a phyint line with an interface name yields one backend call:
\* mroute_add_vif when it is enabled, mroute_del_vif otherwise, where enabled
\* is the last enable/disable keyword of the line and do_vifs when it has
\* neither.
C7_PhyintEnable ==
    LineDone /\ PhyintLine =>
      /\ Len(LineCalls) = 1
      /\ LineCalls[1].fn = IF Enabled THEN "mroute_add_vif" ELSE "mroute_del_vif"

\* C8: the interface named in the backend call of a phyint line is the
\* token that follows the verb.
C8_PhyintName ==
    LineDone /\ PhyintLine /\ LineCalls # <<>>
    => LineCalls[1].args.ifname = Words[2]

-----------------------------------------------------------------------------
(* The outbound list of an mroute line, as add_mroute receives it.         *)

MrouteCall(c) == c.fn \in {"mroute4_add", "mroute6_add"}

\* The line passes add_mroute's checks of its operands other than the
\* outbound list: conf.c:132-158 for IPv6, conf.c:132-135 and 187-220 for
\* IPv4.
OtherwiseValid ==
    /\ op = 2 /\ ~MissingOperand
    /\ ~UnresolvedInbound /\ ~InvalidGroup /\ ~NonMulticastGroup
    /\ IF Six(group)
       THEN have_ipv6 /\ source # NULL /\ ~InvalidSource
       ELSE ~InvalidSource /\ ~InvalidPrefix /\ ~SourceWithPrefix

\* The positions of the outbound list that resolve, and those that do not.
ValidOut == { i \in 1..num : Resolves(dest[i], Six(group)) }
InvalidOut == (1..num) \ ValidOut

InvalidOutboundWarnings ==
    Len(SelectSeq(LineWarns, LAMBDA w :
            w.msg \in {"Invalid outbound IPv4 interface", "Invalid outbound IPv6 interface"}))

\* The entries of a TTL vector that are set.
SetEntries(ttl) == { i \in DOMAIN ttl : ttl[i] # 0 }

\* C9 as claimed: an otherwise valid mroute line with K >= 1 resolving and M
\* non-resolving outbound names produces a single mroute_add whose TTL
\* vector has exactly K entries set, each to the threshold of its interface,
\* and M "Invalid outbound" warnings.
C9_ExactlyKEntries ==
    LineDone /\ OtherwiseValid /\ ValidOut # {} =>
      /\ Len(LineCalls) = 1 /\ MrouteCall(LineCalls[1])
      /\ Cardinality(SetEntries(LineCalls[1].args.ttl)) = Cardinality(ValidOut)
      /\ \A i \in ValidOut :
            LineCalls[1].args.ttl[Index(dest[i], Six(group))] = ifaces[dest[i]].threshold
      /\ InvalidOutboundWarnings = Cardinality(InvalidOut)

\* C9 as amended: ... produces a single mroute_add whose TTL vector holds, at
\* the index of every resolving outbound interface, the threshold of that
\* interface, and zero at every other index (one entry for an interface
\* named several times), and one "Invalid outbound" warning for each of the
\* M names that do not resolve.
C9_EntryPerInterface ==
    LineDone /\ OtherwiseValid /\ ValidOut # {} =>
      /\ Len(LineCalls) = 1 /\ MrouteCall(LineCalls[1])
      /\ \A i \in ValidOut :
            LineCalls[1].args.ttl[Index(dest[i], Six(group))] = ifaces[dest[i]].threshold
      /\ \A x \in DOMAIN LineCalls[1].args.ttl :
            (\A i \in ValidOut : Index(dest[i], Six(group)) # x)
            => LineCalls[1].args.ttl[x] = 0
      /\ InvalidOutboundWarnings = Cardinality(InvalidOut)

\* An mroute line with two resolving and two non-resolving outbound names
\* has installed its route.
C9_Witness ==
    /\ LineDone /\ OtherwiseValid
    /\ Cardinality(ValidOut) = 2 /\ Cardinality(InvalidOut) = 2
    /\ Len(LineCalls) = 1 /\ MrouteCall(LineCalls[1])
    /\ Cardinality(SetEntries(LineCalls[1].args.ttl)) = 2

\* C10: an mroute line installs a route only if its outbound list holds an
\* interface that resolves to a virtual index other than the inbound one.
C10_NonInboundOutbound ==
    LineDone /\ op = 2 /\ LineCalls # <<>> =>
      \E i \in ValidOut : Index(dest[i], Six(group)) # Index(ifname, Six(group))

-----------------------------------------------------------------------------
\* The line in linebuf has installed an IPv4 route.
Mroute4Added == LineDone /\ LineCalls # <<>> /\ LineCalls[1].fn = "mroute4_add"

C12_NoPrefixWithSource ==
    LineDone /\ SourceWithPrefix =>
      /\ LineCalls = <<>>
      /\ ~MissingOperand /\ ~UnresolvedInbound
         => \E i \in 1..Len(LineWarns) :
               LineWarns[i].msg = "GROUP/LEN not yet supported for source specific multicast."

\* A complete mroute line with source 10.0.0.1 and a /16 group has been
\* applied: no call, one warning.
C12_Witness ==
    /\ LineDone /\ SourceWithPrefix /\ ~MissingOperand /\ ~UnresolvedInbound
    /\ source = a_10 /\ PrefixLen(group) = 16
    /\ LineCalls = <<>> /\ Len(LineWarns) = 1

-----------------------------------------------------------------------------
\* conf_read has run twice on the file, and both passes read it to its end.
TwoPasses ==
    pass = 2 /\ pc = "done" /\ prev.ok /\ readable = "ok" /\ ret = 0 /\ ~ioerr

\* The function and arguments of the backend calls cs, in order.
Sequence(cs) == [i \in 1..Len(cs) |-> [fn |-> cs[i].fn, args |-> cs[i].args]]

-----------------------------------------------------------------------------
\* The 1-based index, in the file, of the line that holds offset pos.
FileLine(pos) == 1 + Cardinality({ i \in 1..pos : file[i] = "\n" })

RECURSIVE BufferCount(_, _)
\* The number of buffers fgets returns from offset from up to and including
\* the one that starts at offset pos.
BufferCount(from, pos) ==
    IF from >= pos THEN 1
    ELSE 1 + BufferCount(from + Len(fgets(file, from)), pos)

\* C14 as claimed: the line number of every warning is the 1-based index of
\* the offending line in the file, also in a file with lines longer than
\* the line buffer.
C14_WarningLineIsFileLine ==
    \A i \in 1..Len(warns) : warns[i].lineno = FileLine(warns[i].pos)

\* C14 as amended: the line number of every warning is the 1-based count of
\* the buffers fgets has returned so far: the index of the offending line
\* in the file when no line up to it exceeds the buffer, and one more for
\* every further piece of MAX_LINE_LEN - 1 bytes of a longer line.
C14_WarningLineIsBufferCount ==
    \A i \in 1..Len(warns) : warns[i].lineno = BufferCount(0, warns[i].pos)

\* A warning has been logged for the second piece of a first line longer
\* than the buffer, with line number 2.
C14_Witness ==
    \E i \in 1..Len(warns) :
        /\ warns[i].lineno = 2 /\ FileLine(warns[i].pos) = 1
        /\ warns[i].pos = MAX_LINE_LEN - 1

-----------------------------------------------------------------------------
\* The line in linebuf is an mgroup or mroute line with an IPv6 group.
Group6Line == LineDone /\ op \in {1, 2} /\ group # NULL /\ Six(group)

\* What join_mgroup or add_mroute returned for the line in linebuf:
\* conf_parse drops the value, so it is computed again from the locals.
\* (An mgroup or mroute line leaves the interface table as it was.)
LineResult == apply(lineno - 1, Locals).result

NoCall6 == \A i \in 1..Len(calls) : calls[i].fn \notin {"mcgroup6_join", "mroute6_add"}

PassCompletes == pc = "done" /\ readable = "ok" /\ ret = 0 => hooks = 1

-----------------------------------------------------------------------------
\* An mroute line without a source whose other operands are valid: a
\* resolving inbound interface, a multicast group (of a family the build
\* supports) and an outbound name that resolves.
ValidWithoutSource ==
    /\ LineDone /\ op = 2 /\ source = NULL /\ ~MissingOperand
    /\ ~UnresolvedInbound /\ ~InvalidGroup /\ ~NonMulticastGroup /\ ~InvalidPrefix
    /\ ValidOut # {}
    /\ Six(group) => have_ipv6

-----------------------------------------------------------------------------
\* C17: every mgroup or mroute line that ends without a backend call, also
\* one that misses a required operand, has logged at least one warning with
\* its line number.
C17_RejectedIsWarned ==
    LineDone /\ op \in {1, 2} /\ LineCalls = <<>> =>
      \E i \in 1..Len(warns) : warns[i].pos = linepos /\ warns[i].lineno = lineno - 1

\* C18: successive pop_token calls on a buffer return its maximal runs of
\* non-whitespace characters, in order, and then end of line, the last run
\* included when no whitespace follows it.
C18_PopTokenReturnsRuns ==
    linebuf # NULL => Tokens = Words

\* C19: num never exceeds the 32 slots of dest, and every store into dest,
\* the store of the terminating NULL included, has an index in 0..31.
C19_DestWithinBounds ==
    num <= DEST_SLOTS /\ top <= DEST_SLOTS - 1

\* C20: no backend call is made with a NULL interface name.
C20_NoNullName ==
    \A i \in 1..Len(calls) : calls[i].args.ifname # NULL

=============================================================================
